---- MODULE Spec2Model ----
(***************************************************************************)
(* The display power controller of the always-on-display clock: the five   *)
(* App components of the repository, each a variant of the same widget.    *)
(*                                                                         *)
(*   "fallback"  src/src/App.tsx            (idle timer, hidden video,     *)
(*                                           setup panel with Retry)       *)
(*   "dimming"   src/unnamed/part_000 15-226   (isOff/isPersistent/isDimmed)*)
(*   "basic"     src/unnamed/part_000 235-364  (idle timer)                *)
(*   "revoke"    src/unnamed/part_000 374-540  (release listener powers    *)
(*                                              off)                       *)
(*   "awaited"   src/unnamed/part_000 550-684  (handlePowerOn awaits the   *)
(*                                              wake-lock request)         *)
(*                                                                         *)
(* One step of the model is one turn of the event loop: a DOM event        *)
(* handler, a timeout callback, the continuation of an await, a promise    *)
(* reaction or a 'release' event listener, run to its end (or to its next  *)
(* await).  A handler is a function from the state it starts in to the     *)
(* state it leaves; the state is read as the record Cur, and Commit writes *)
(* the record a handler returns back to the variables.                     *)
(*                                                                         *)
(* React state (useState) is read by a handler from the render that        *)
(* created it.  Click handlers and effects are those of the last render,   *)
(* so they read the current values; what an asynchronous callback reads    *)
(* through a closure is what was captured when the request was issued,     *)
(* and is carried by the request (cOff, cPers).                            *)
(*                                                                         *)
(* The platform (wake-lock provider, timers, fullscreen, visibility) is    *)
(* the environment: a request settles at any later turn, a granted lock    *)
(* can be revoked at any turn, the promise of release() settles at any     *)
(* later turn, after the lock's 'release' event.  A request is granted     *)
(* only while the document is visible.  Time advances in ticks of one      *)
(* second; a timeout whose delay has run out fires before the next tick.   *)
(***************************************************************************)
EXTENDS Integers, FiniteSets, Sequences, TLC

\* Wake-lock requests and sentinels alive at the same time.
MaxLocks == 2
\* Timeouts scheduled at the same time.
MaxTimers == 2
\* The idle delay, setTimeout(..., 5000), in seconds.
IdleSeconds == 5

Variants == {"fallback", "dimming", "basic", "revoke", "awaited"}
TimerVariants == {"fallback", "basic", "revoke", "awaited"}
LockIds == 1..MaxLocks
TimerIds == 1..MaxTimers
ElapsedCap == IdleSeconds + 1

VARIABLES
  variant,           \* which App component runs
  hasWakeLock,       \* 'wakeLock' in navigator
  fullscreenEnabled, \* document.fullscreenEnabled
  visibilityState,   \* document.visibilityState
  fullscreenElement, \* document.fullscreenElement is set
  fsEnter,           \* a requestFullscreen() is in flight
  fsExit,            \* an exitFullscreen() is in flight
  fsFrom,            \* the turn just taken called requestFullscreen(): from where
  isVisible,         \* useState, fallback and basic
  showClock,         \* useState, revoke and awaited
  isOff,             \* useState, dimming
  isPersistent,      \* useState, dimming
  isDimmed,          \* useState, dimming
  hasError,          \* useState, dimming: hasError is non-null
  showSetup,         \* useState, fallback
  wakeLockStatus,    \* useState, fallback
  wakeLockRef,       \* useRef: the sentinel stored, 0 for null
  videoRef,          \* useRef, fallback: a video element is stored
  videoPlaying,      \* the stored video element is playing
  timerRef,          \* useRef: the timeout id stored, 0 for null
  locks,             \* per id: the request or sentinel, see FreeLock
  relWait,           \* sentinels whose release() a releaseWakeLock awaits
  timers,            \* per timeout id: seconds left, -1 when not scheduled
  elapsed,           \* seconds since the last tap of the active session
  wasActive,         \* the session was active when the turn just taken began
  cleared,           \* the turn just taken cancelled a timeout still scheduled
  plays,             \* video.play() calls of the turn just taken
  videoThrew,        \* the fallback block of the turn just taken threw
  escaped            \* an exception left the handler of the turn just taken

vars == <<variant, hasWakeLock, fullscreenEnabled, visibilityState,
          fullscreenElement, fsEnter, fsExit, fsFrom, isVisible, showClock,
          isOff, isPersistent, isDimmed, hasError, showSetup, wakeLockStatus,
          wakeLockRef, videoRef, videoPlaying, timerRef, locks, relWait,
          timers, elapsed, wasActive, cleared, plays, videoThrew,
          escaped>>

\* A free slot of locks.  st: "free", "waitRelease" (requestWakeLock awaits
\* the release of sentinel prev before it requests), "pending" (request in
\* flight), "held" (granted), "releasing" (release() called, the lock not yet
\* released), "released".  site: the code that issued the request, which
\* decides its reactions and the sentinel's 'release' listener.  cOff, cPers:
\* isOff and isPersistent as the issuing closure captured them.  stale: the
\* session that issued the request was deactivated, or a newer request was
\* issued, before the request settled.
FreeLock ==
  [st |-> "free", site |-> "none", prev |-> 0, cOff |-> FALSE,
   cPers |-> FALSE, stale |-> FALSE]

\* The state a turn starts in, as a record; ok turns FALSE when a handler
\* needs more lock or timer slots than the model has.
Cur ==
  [variant |-> variant, hasWakeLock |-> hasWakeLock,
   fullscreenEnabled |-> fullscreenEnabled,
   visibilityState |-> visibilityState,
   fullscreenElement |-> fullscreenElement, fsEnter |-> fsEnter,
   fsExit |-> fsExit, fsFrom |-> "none", isVisible |-> isVisible,
   showClock |-> showClock, isOff |-> isOff, isPersistent |-> isPersistent,
   isDimmed |-> isDimmed, hasError |-> hasError, showSetup |-> showSetup,
   wakeLockStatus |-> wakeLockStatus, wakeLockRef |-> wakeLockRef,
   videoRef |-> videoRef, videoPlaying |-> videoPlaying,
   timerRef |-> timerRef, locks |-> locks, relWait |-> relWait,
   timers |-> timers, elapsed |-> elapsed, cleared |-> FALSE, plays |-> 0,
   videoThrew |-> FALSE,
   escaped |-> FALSE,
   ok |-> TRUE]

\* The session is active, per variant.
Active(s) ==
  CASE s.variant \in {"fallback", "basic"} -> s.isVisible
    [] s.variant \in {"revoke", "awaited"} -> s.showClock
    [] OTHER -> ~s.isOff

\* A sentinel nothing refers to any more: released, not stored in
\* wakeLockRef, and no continuation awaits its release().
Collectable(s, i) ==
  /\ s.locks[i].st = "released"
  /\ s.wakeLockRef # i
  /\ i \notin s.relWait
  /\ \A j \in LockIds : ~(s.locks[j].st = "waitRelease" /\ s.locks[j].prev = i)

Collect(s) ==
  [s EXCEPT !.locks = [i \in LockIds |->
                         IF Collectable(s, i) THEN FreeLock ELSE s.locks[i]]]

FreeIds(s) == {i \in LockIds : s.locks[i].st = "free"}

Least(S) == CHOOSE x \in S : \A y \in S : x <= y

(***************************************************************************)
(* The platform's primitives, as the handlers call them.                   *)
(***************************************************************************)

\* sentinel.release(): asks the platform to release the lock; a sentinel
\* already released stays as it is.  The caller awaits the returned promise.
release(s, l) ==
  [s EXCEPT !.locks[l].st = IF @ = "held" THEN "releasing" ELSE @]

\* navigator.wakeLock.request('screen') returning its promise: a new request
\* in flight, issued by `site`.  Every request still in flight is now
\* superseded by a newer one (stale).
request(s, site, cOff, cPers) ==
  LET t == Collect(s)
      free == FreeIds(t)
  IN IF free = {}
     THEN [s EXCEPT !.ok = FALSE]
     ELSE [t EXCEPT !.locks =
             [i \in LockIds |->
                IF i = Least(free)
                THEN [st |-> "pending", site |-> site, prev |-> 0,
                      cOff |-> cOff, cPers |-> cPers, stale |-> FALSE]
                ELSE IF t.locks[i].st \in {"pending", "waitRelease"}
                     THEN [t.locks[i] EXCEPT !.stale = TRUE]
                     ELSE t.locks[i]]]

\* clearTimeout(id)
clearTimeout(s, id) ==
  IF id \in TimerIds
  THEN [s EXCEPT !.timers[id] = -1, !.cleared = @ \/ s.timers[id] >= 0]
  ELSE s

\* setTimeout(callback, 5000), its id stored in timerRef.
setTimeout(s) ==
  LET free == {t \in TimerIds : s.timers[t] = -1}
  IN IF free = {}
     THEN [s EXCEPT !.ok = FALSE]
     ELSE [s EXCEPT !.timers[Least(free)] = IdleSeconds,
                    !.timerRef = Least(free)]

\* document.documentElement.requestFullscreen() returning its promise.
requestFullscreen(s, from) ==
  [s EXCEPT !.fsEnter = TRUE, !.fsFrom = from]

\* document.exitFullscreen()
exitFullscreen(s) == [s EXCEPT !.fsExit = TRUE]

(***************************************************************************)
(* src/src/App.tsx: the fallback variant.                                  *)
(***************************************************************************)

\* releaseWakeLock, lines 35-40: the hidden video is paused and dropped.
stopVideo(s) ==
  IF s.videoRef
  THEN [s EXCEPT !.videoRef = FALSE, !.videoPlaying = FALSE]
  ELSE s

\* releaseWakeLock up to its await: with a sentinel stored, release() is
\* called on it and the function suspends; without one it runs to its end.
\* The four copies in part_000 are the same without the video, and videoRef
\* is FALSE there.
releaseWakeLock(s) ==
  IF s.wakeLockRef # 0
  THEN [release(s, s.wakeLockRef) EXCEPT !.relWait = @ \cup {s.wakeLockRef}]
  ELSE stopVideo(s)

\* releaseWakeLock after its await of the release() of sentinel l:
\* wakeLockRef.current = null, whatever it holds by now, then the video.
releaseWakeLockResume(s, l) ==
  stopVideo([s EXCEPT !.wakeLockRef = 0, !.relWait = @ \ {l}])

\* startTimer without its clearTimeout
startTimer_noCancel(s) == setTimeout(s)

\* startTimer: cancel the stored timeout, schedule a new one.
startTimer(s) ==
  setTimeout(IF s.timerRef # 0 THEN clearTimeout(s, s.timerRef) ELSE s)

\* turnOff without its clearTimeout
turnOff_keepsTimer(s) == releaseWakeLock([s EXCEPT !.isVisible = FALSE])

\* turnOff (fallback, and the basic variant's copy)
turnOff(s) ==
  LET a == releaseWakeLock([s EXCEPT !.isVisible = FALSE])
  IN IF a.timerRef # 0
     THEN [clearTimeout(a, a.timerRef) EXCEPT !.timerRef = 0]
     ELSE a

\* requestWakeLock, step 2: the hidden video loop.  vo is what play() does:
\* "plays", "rejects" (its promise rejects: caught, logged), "throwsIdle" or
\* "throwsPlaying" (play() or its .catch throws, as where play() returns no
\* promise; the element may have started or not).
fallbackVideo(s, vo) ==
  LET a == [s EXCEPT !.videoRef = TRUE, !.plays = @ + 1]
  IN CASE vo = "plays" ->
            [a EXCEPT !.videoPlaying = TRUE, !.wakeLockStatus = "fallback"]
       [] vo = "rejects" -> [a EXCEPT !.wakeLockStatus = "fallback"]
       [] vo = "throwsPlaying" ->
            [a EXCEPT !.videoPlaying = TRUE, !.wakeLockStatus = "denied",
                      !.videoThrew = TRUE]
       [] OTHER -> [a EXCEPT !.wakeLockStatus = "denied",
                             !.videoThrew = TRUE]

\* requestWakeLock from `const lock = await request(...)`: the call throws
\* (caught: 'denied', then the video) or the request is in flight.
requestWakeLockIssue(s, throws, vo) ==
  IF throws
  THEN fallbackVideo([s EXCEPT !.wakeLockStatus = "denied"], vo)
  ELSE request(s, "fallback", FALSE, FALSE)

\* requestWakeLock up to its first await.
requestWakeLock(s, throws, vo) ==
  IF ~s.hasWakeLock THEN fallbackVideo(s, vo)
  ELSE IF s.wakeLockRef # 0
  THEN LET t == Collect(release(s, s.wakeLockRef))
           free == FreeIds(t)
       IN IF free = {}
          THEN [s EXCEPT !.ok = FALSE]
          ELSE [t EXCEPT !.locks[Least(free)] =
                  [FreeLock EXCEPT !.st = "waitRelease", !.site = "fallback",
                                   !.prev = s.wakeLockRef]]
  ELSE requestWakeLockIssue(s, throws, vo)

\* requestWakeLock after `await wakeLockRef.current.release()`, for the
\* invocation in slot i: wakeLockRef.current = null, then the request.
requestWakeLockResume(s, i, throws, vo) ==
  LET a == [s EXCEPT !.wakeLockRef = 0, !.locks[i] = FreeLock]
      b == requestWakeLockIssue(a, throws, vo)
  IN IF throws THEN b
     ELSE [b EXCEPT !.locks =
             [j \in LockIds |->
                IF b.locks[j].st = "pending" /\ ~b.locks[j].stale
                THEN [b.locks[j] EXCEPT !.stale = s.locks[i].stale]
                ELSE b.locks[j]]]

\* requestWakeLock after `await request`: granted.
onGranted_fallback(s, i) ==
  [s EXCEPT !.wakeLockRef = i, !.wakeLockStatus = "granted"]

\* requestWakeLock's catch without the video block after it
onRejected_fallback_noVideo(s, vo) == [s EXCEPT !.wakeLockStatus = "denied"]

\* requestWakeLock after `await request`: rejected.
onRejected_fallback(s, vo) ==
  fallbackVideo([s EXCEPT !.wakeLockStatus = "denied"], vo)

\* the 'release' listener requestWakeLock adds to its lock
onRelease_fallback(s, i) ==
  IF s.wakeLockRef = i THEN [s EXCEPT !.wakeLockRef = 0] ELSE s

\* handleInteraction without the `if (isVisible)` branch: every tap
\* activates again
handleInteraction_alwaysActivates(s, throws, vo) ==
  IF s.showSetup THEN s
  ELSE startTimer(requestWakeLock([s EXCEPT !.isVisible = TRUE], throws, vo))

\* handleInteraction
handleInteraction(s, throws, vo) ==
  IF s.showSetup THEN s
  ELSE IF s.isVisible THEN startTimer(s)
  ELSE startTimer(requestWakeLock([s EXCEPT !.isVisible = TRUE], throws, vo))

(***************************************************************************)
(* src/unnamed/part_000, lines 235-364: the basic timer variant.           *)
(***************************************************************************)

\* turnOff
turnOff_basic(s) ==
  LET a == releaseWakeLock([s EXCEPT !.isVisible = FALSE])
  IN IF a.timerRef # 0
     THEN [clearTimeout(a, a.timerRef) EXCEPT !.timerRef = 0]
     ELSE a

\* handleInteraction; `throws`: wakeLock.request throws synchronously
\* (caught and logged).
handleInteraction_basic(s, throws) ==
  IF s.isVisible THEN startTimer(s)
  ELSE LET a == [s EXCEPT !.isVisible = TRUE]
           b == IF s.hasWakeLock /\ ~throws
                THEN request(a, "basic", FALSE, FALSE)
                ELSE a
       IN startTimer(b)

\* .then((lock) => { wakeLockRef.current = lock; ... })
onGranted_basic(s, i) == [s EXCEPT !.wakeLockRef = i]

\* the 'release' listener
onRelease_basic(s, i) ==
  IF s.wakeLockRef = i THEN [s EXCEPT !.wakeLockRef = 0] ELSE s

(***************************************************************************)
(* src/unnamed/part_000, lines 374-540: the revoke-terminal variant.       *)
(***************************************************************************)

\* handlePowerOff
handlePowerOff_revoke(s) ==
  LET a == releaseWakeLock([s EXCEPT !.showClock = FALSE])
      b == IF a.timerRef # 0
           THEN [clearTimeout(a, a.timerRef) EXCEPT !.timerRef = 0]
           ELSE a
  IN IF b.fullscreenElement THEN exitFullscreen(b) ELSE b

\* handlePowerOn; `throws`, `fsThrows`: wakeLock.request, requestFullscreen
\* throw synchronously (both caught and logged).
handlePowerOn_revoke(s, throws, fsThrows) ==
  IF s.showClock THEN startTimer(s)
  ELSE LET a == [s EXCEPT !.showClock = TRUE]
           b == IF s.hasWakeLock /\ ~throws
                THEN request(a, "revoke", FALSE, FALSE)
                ELSE a
           c == IF b.fullscreenEnabled /\ ~b.fullscreenElement /\ ~fsThrows
                THEN requestFullscreen(b, "gesture")
                ELSE b
       IN startTimer(c)

\* .then((lock) => { wakeLockRef.current = lock; ... })
onGranted_revoke(s, i) == [s EXCEPT !.wakeLockRef = i]

\* the 'release' listener as the basic variant has it: the ref is nulled
onRelease_revoke_onlyClears(s, i) ==
  IF s.wakeLockRef = i THEN [s EXCEPT !.wakeLockRef = 0] ELSE s

\* the 'release' listener: if the lock is the stored one, handlePowerOff()
onRelease_revoke(s, i) ==
  IF s.wakeLockRef = i THEN handlePowerOff_revoke(s) ELSE s

(***************************************************************************)
(* src/unnamed/part_000, lines 550-684: the awaited-request variant.       *)
(***************************************************************************)

\* handlePowerOff
handlePowerOff_awaited(s) ==
  LET a == releaseWakeLock([s EXCEPT !.showClock = FALSE])
      b == IF a.timerRef # 0
           THEN [clearTimeout(a, a.timerRef) EXCEPT !.timerRef = 0]
           ELSE a
  IN IF b.fullscreenElement THEN exitFullscreen(b) ELSE b

\* handlePowerOn from "Request Fullscreen on user gesture" to its end.
\* requestFullscreen() is called outside any try: when it throws, the
\* exception leaves the async function and startTimer() is not reached.
handlePowerOnTail_awaited(s, fsThrows, from) ==
  IF s.fullscreenEnabled /\ ~s.fullscreenElement
  THEN IF fsThrows
       THEN [s EXCEPT !.escaped = TRUE]
       ELSE startTimer(requestFullscreen(s, from))
  ELSE startTimer(s)

\* handlePowerOn up to its await.  Without the API, or when request()
\* throws (caught), there is no await and the function runs to its end.
handlePowerOn_awaited(s, throws, fsThrows) ==
  IF s.showClock THEN startTimer(s)
  ELSE LET a == [s EXCEPT !.showClock = TRUE]
       IN IF s.hasWakeLock /\ ~throws
          THEN request(a, "awaited", FALSE, FALSE)
          ELSE handlePowerOnTail_awaited(a, fsThrows, "gesture")

\* handlePowerOn after `await request`: granted
onGranted_awaited(s, i, fsThrows) ==
  handlePowerOnTail_awaited([s EXCEPT !.wakeLockRef = i], fsThrows,
                            "continuation")

\* handlePowerOn after `await request`: rejected (caught)
onRejected_awaited(s, fsThrows) ==
  handlePowerOnTail_awaited(s, fsThrows, "continuation")

(***************************************************************************)
(* src/unnamed/part_000, lines 15-226: the dimming variant.                *)
(***************************************************************************)

\* handlePowerOff
handlePowerOff_dimming(s) ==
  LET a == releaseWakeLock([s EXCEPT !.isOff = TRUE, !.isPersistent = FALSE])
  IN IF a.fullscreenElement THEN exitFullscreen(a) ELSE a

\* handlePowerOn.  request() is called outside any try: when it throws, the
\* exception leaves the handler before the fullscreen request.  The
\* 'release' listener calls the requestWakeLock of the render the handler
\* belongs to, which read isOff and isPersistent as they were then.
handlePowerOn_dimming(s, throws, fsThrows) ==
  LET a == [s EXCEPT !.isOff = FALSE, !.isPersistent = TRUE]
      b == IF s.hasWakeLock
           THEN IF throws THEN [a EXCEPT !.escaped = TRUE]
                ELSE request(a, "dim_on", s.isOff, s.isPersistent)
           ELSE a
  IN IF b.escaped THEN b
     ELSE IF b.fullscreenEnabled /\ ~b.fullscreenElement /\ ~fsThrows
     THEN requestFullscreen(b, "gesture")
     ELSE b

\* requestWakeLock of a render in which isOff = cOff and
\* isPersistent = cPers, up to its first await.
requestWakeLock_dimming(s, cOff, cPers, throws) ==
  IF ~s.hasWakeLock \/ cOff THEN s
  ELSE IF s.wakeLockRef # 0
  THEN LET t == Collect(release(s, s.wakeLockRef))
           free == FreeIds(t)
       IN IF free = {}
          THEN [s EXCEPT !.ok = FALSE]
          ELSE [t EXCEPT !.locks[Least(free)] =
                  [FreeLock EXCEPT !.st = "waitRelease", !.site = "dim_req",
                                   !.prev = s.wakeLockRef, !.cOff = cOff,
                                   !.cPers = cPers]]
  ELSE IF throws THEN s
  ELSE request(s, "dim_req", cOff, cPers)

\* requestWakeLock after `await wakeLockRef.current.release()`
requestWakeLockResume_dimming(s, i, throws) ==
  LET a == [s EXCEPT !.locks[i] = FreeLock]
  IN IF throws THEN a
     ELSE request(a, "dim_req", s.locks[i].cOff, s.locks[i].cPers)

\* .then of handlePowerOn
onGranted_dim_on(s, i) == [s EXCEPT !.wakeLockRef = i]

\* the listener, had it called a requestWakeLock that reads no stale isOff
onRelease_dim_on_rerequests(s, i, throws) ==
  LET a == [s EXCEPT !.wakeLockRef = 0]
  IN IF a.visibilityState = "visible" /\ ~throws
     THEN request(a, "dim_req", FALSE, TRUE)
     ELSE a

\* the 'release' listener handlePowerOn adds
onRelease_dim_on(s, i, throws) ==
  LET a == [s EXCEPT !.wakeLockRef = 0]
  IN IF a.visibilityState = "visible"
     THEN requestWakeLock_dimming(a, s.locks[i].cOff, s.locks[i].cPers, throws)
     ELSE a

\* requestWakeLock after `await request`: granted
onGranted_dim_req(s, i) == [s EXCEPT !.wakeLockRef = i, !.hasError = FALSE]

\* requestWakeLock's catch
onRejected_dim_req(s, err) ==
  IF err = "NotAllowedError" THEN [s EXCEPT !.hasError = TRUE] ELSE s

\* the 'release' listener requestWakeLock adds
onRelease_dim_req(s, i, throws) ==
  LET a == [s EXCEPT !.wakeLockRef = 0]
  IN IF s.locks[i].cPers /\ ~s.locks[i].cOff
        /\ a.visibilityState = "visible"
     THEN requestWakeLock_dimming(a, s.locks[i].cOff, s.locks[i].cPers, throws)
     ELSE a

\* handleVisibilityChange, run on every visibilitychange.  request() is
\* called outside any try.
handleVisibilityChange_dimming(s, throws) ==
  IF s.visibilityState = "visible" /\ s.isPersistent /\ ~s.isOff
     /\ s.hasWakeLock
  THEN IF throws THEN [s EXCEPT !.escaped = TRUE]
       ELSE request(s, "dim_vis", s.isOff, s.isPersistent)
  ELSE s

\* .then of handleVisibilityChange; no listener is added to this lock
onGranted_dim_vis(s, i) == [s EXCEPT !.wakeLockRef = i]

\* handleTap
handleTap(s) == IF ~s.isOff THEN [s EXCEPT !.isDimmed = ~@] ELSE s

(***************************************************************************)
(* Dispatch of the platform's callbacks to the code that registered them.  *)
(***************************************************************************)

\* the reaction to a granted request, by the site that issued it
onGranted(s, i, fsThrows) ==
  CASE s.locks[i].site = "fallback" -> onGranted_fallback(s, i)
    [] s.locks[i].site = "basic" -> onGranted_basic(s, i)
    [] s.locks[i].site = "revoke" -> onGranted_revoke(s, i)
    [] s.locks[i].site = "awaited" -> onGranted_awaited(s, i, fsThrows)
    [] s.locks[i].site = "dim_on" -> onGranted_dim_on(s, i)
    [] s.locks[i].site = "dim_req" -> onGranted_dim_req(s, i)
    [] s.locks[i].site = "dim_vis" -> onGranted_dim_vis(s, i)
    [] OTHER -> s

\* the reaction to a rejected request issued by `site`
onRejected(s, site, err, vo, fsThrows) ==
  CASE site = "fallback" -> onRejected_fallback(s, vo)
    [] site = "awaited" -> onRejected_awaited(s, fsThrows)
    [] site = "dim_req" -> onRejected_dim_req(s, err)
    [] OTHER -> s

\* the 'release' listener of sentinel i
onRelease(s, i, throws) ==
  CASE s.locks[i].site = "fallback" -> onRelease_fallback(s, i)
    [] s.locks[i].site = "basic" -> onRelease_basic(s, i)
    [] s.locks[i].site = "revoke" -> onRelease_revoke(s, i)
    [] s.locks[i].site = "dim_on" -> onRelease_dim_on(s, i, throws)
    [] s.locks[i].site = "dim_req" -> onRelease_dim_req(s, i, throws)
    [] OTHER -> s

\* the idle timeout's callback
onTimeout(s) ==
  CASE s.variant = "fallback" -> turnOff(s)
    [] s.variant = "basic" -> turnOff_basic(s)
    [] s.variant = "revoke" -> handlePowerOff_revoke(s)
    [] s.variant = "awaited" -> handlePowerOff_awaited(s)
    [] OTHER -> s

\* the visibilitychange listener
onVisibilityChange(s, throws) ==
  CASE s.variant = "dimming" -> handleVisibilityChange_dimming(s, throws)
    [] s.visibilityState # "hidden" -> s
    [] s.variant = "fallback" -> turnOff(s)
    [] s.variant = "basic" -> turnOff_basic(s)
    [] s.variant = "revoke" -> handlePowerOff_revoke(s)
    [] OTHER -> handlePowerOff_awaited(s)

(***************************************************************************)
(* The state machine.                                                      *)
(***************************************************************************)

VideoOutcomes == {"plays", "rejects", "throwsIdle", "throwsPlaying"}
Errors == {"NotAllowedError", "OtherError"}

\* What a turn leaves: every request in flight when the session is
\* deactivated becomes stale, and elapsed counts only in an active session.
Settle(s) ==
  LET off == Active(Cur) /\ ~Active(s)
  IN Collect([s EXCEPT
       !.elapsed = IF Active(s) THEN @ ELSE 0,
       !.locks = [i \in LockIds |->
                    IF off /\ s.locks[i].st \in {"pending", "waitRelease"}
                    THEN [s.locks[i] EXCEPT !.stale = TRUE]
                    ELSE s.locks[i]]])

Commit(s) ==
  /\ s.ok
  /\ \E t \in {Settle(s)} :
        /\ variant' = t.variant
        /\ hasWakeLock' = t.hasWakeLock
        /\ fullscreenEnabled' = t.fullscreenEnabled
        /\ visibilityState' = t.visibilityState
        /\ fullscreenElement' = t.fullscreenElement
        /\ fsEnter' = t.fsEnter
        /\ fsExit' = t.fsExit
        /\ fsFrom' = t.fsFrom
        /\ isVisible' = t.isVisible
        /\ showClock' = t.showClock
        /\ isOff' = t.isOff
        /\ isPersistent' = t.isPersistent
        /\ isDimmed' = t.isDimmed
        /\ hasError' = t.hasError
        /\ showSetup' = t.showSetup
        /\ wakeLockStatus' = t.wakeLockStatus
        /\ wakeLockRef' = t.wakeLockRef
        /\ videoRef' = t.videoRef
        /\ videoPlaying' = t.videoPlaying
        /\ timerRef' = t.timerRef
        /\ locks' = t.locks
        /\ relWait' = t.relWait
        /\ timers' = t.timers
        /\ elapsed' = t.elapsed
        /\ wasActive' = Active(Cur)
        /\ cleared' = t.cleared
        /\ plays' = t.plays
        /\ videoThrew' = t.videoThrew
        /\ escaped' = t.escaped

Init ==
  /\ variant \in Variants
  /\ hasWakeLock \in BOOLEAN
  \* the fallback and basic variants never read document.fullscreenEnabled
  /\ fullscreenEnabled \in
       (IF variant \in {"fallback", "basic"} THEN {FALSE} ELSE BOOLEAN)
  /\ visibilityState = "visible"
  /\ fullscreenElement = FALSE
  /\ fsEnter = FALSE
  /\ fsExit = FALSE
  /\ fsFrom = "none"
  /\ isVisible = FALSE
  /\ showClock = FALSE
  /\ isOff = TRUE
  /\ isPersistent = TRUE
  /\ isDimmed = FALSE
  /\ hasError = FALSE
  /\ showSetup = FALSE
  /\ wakeLockStatus = "unknown"
  /\ wakeLockRef = 0
  /\ videoRef = FALSE
  /\ videoPlaying = FALSE
  /\ timerRef = 0
  /\ locks = [i \in LockIds |-> FreeLock]
  /\ relWait = {}
  /\ timers = [t \in TimerIds |-> -1]
  /\ elapsed = 0
  /\ wasActive = FALSE
  /\ cleared = FALSE
  /\ plays = 0
  /\ videoThrew = FALSE
  /\ escaped = FALSE

\* A click on the root element, fallback variant.
TapFallback ==
  /\ variant = "fallback"
  /\ visibilityState = "visible"
  /\ \E throws \in BOOLEAN, vo \in VideoOutcomes :
       Commit([handleInteraction(Cur, throws, vo) EXCEPT !.elapsed = 0])

\* The setup trigger, rendered while !isVisible && !showSetup.
OpenSetup ==
  /\ variant = "fallback"
  /\ visibilityState = "visible"
  /\ ~isVisible /\ ~showSetup
  /\ Commit([Cur EXCEPT !.showSetup = TRUE])

\* The panel's close and "Save & Apply" buttons.
CloseSetup ==
  /\ variant = "fallback"
  /\ visibilityState = "visible"
  /\ showSetup
  /\ Commit([Cur EXCEPT !.showSetup = FALSE])

\* The Retry button, rendered in the panel while the status is not 'granted'.
Retry ==
  /\ variant = "fallback"
  /\ visibilityState = "visible"
  /\ showSetup /\ wakeLockStatus # "granted"
  /\ \E throws \in BOOLEAN, vo \in VideoOutcomes :
       Commit(requestWakeLock(Cur, throws, vo))

\* A click on the root element, basic variant.
TapBasic ==
  /\ variant = "basic"
  /\ visibilityState = "visible"
  /\ \E throws \in BOOLEAN :
       Commit([handleInteraction_basic(Cur, throws) EXCEPT !.elapsed = 0])

\* A click on the root element, revoke-terminal variant.
TapRevoke ==
  /\ variant = "revoke"
  /\ visibilityState = "visible"
  /\ \E throws \in BOOLEAN, fsThrows \in BOOLEAN :
       Commit([handlePowerOn_revoke(Cur, throws, fsThrows)
                 EXCEPT !.elapsed = 0])

\* A click on the root element, awaited-request variant.
TapAwaited ==
  /\ variant = "awaited"
  /\ visibilityState = "visible"
  /\ \E throws \in BOOLEAN, fsThrows \in BOOLEAN :
       Commit([handlePowerOn_awaited(Cur, throws, fsThrows)
                 EXCEPT !.elapsed = 0])

\* A click on the off screen of the dimming variant ("Tap to Activate AOD").
PowerOnDimming ==
  /\ variant = "dimming"
  /\ visibilityState = "visible"
  /\ isOff
  /\ \E throws \in BOOLEAN, fsThrows \in BOOLEAN :
       Commit([handlePowerOn_dimming(Cur, throws, fsThrows)
                 EXCEPT !.elapsed = 0])

\* A click on the clock of the dimming variant.
TapDimming ==
  /\ variant = "dimming"
  /\ visibilityState = "visible"
  /\ ~isOff
  /\ Commit([handleTap(Cur) EXCEPT !.elapsed = 0])

\* A double click on the clock of the dimming variant.
PowerOffDimming ==
  /\ variant = "dimming"
  /\ visibilityState = "visible"
  /\ ~isOff
  /\ Commit(handlePowerOff_dimming(Cur))

\* The document becomes hidden; the visibilitychange listener runs.
Hide ==
  /\ visibilityState = "visible"
  /\ \E throws \in BOOLEAN :
       Commit(onVisibilityChange([Cur EXCEPT !.visibilityState = "hidden"],
                                 throws))

\* The document becomes visible again; the visibilitychange listener runs.
Show ==
  /\ visibilityState = "hidden"
  /\ \E throws \in BOOLEAN :
       Commit(onVisibilityChange([Cur EXCEPT !.visibilityState = "visible"],
                                 throws))

\* One second passes; no timeout that is due is left waiting.
Tick ==
  /\ \A t \in TimerIds : timers[t] # 0
  /\ Active(Cur) \/ \E t \in TimerIds : timers[t] > 0
  /\ Commit([Cur EXCEPT
       !.timers = [t \in TimerIds |-> IF timers[t] > 0 THEN timers[t] - 1
                                      ELSE timers[t]],
       !.elapsed = IF @ < ElapsedCap THEN @ + 1 ELSE @])

\* A timeout fires: its callback runs.
TimerFires ==
  \E t \in TimerIds :
    /\ timers[t] = 0
    /\ Commit(onTimeout([Cur EXCEPT !.timers[t] = -1]))

\* The platform grants a request in flight (only to a visible document).
Grant ==
  \E i \in LockIds, fsThrows \in BOOLEAN :
    /\ locks[i].st = "pending"
    /\ visibilityState = "visible"
    /\ Commit(onGranted([Cur EXCEPT !.locks[i].st = "held"], i, fsThrows))

\* The platform rejects a request in flight.
Reject ==
  \E i \in LockIds, err \in Errors, vo \in VideoOutcomes,
     fsThrows \in BOOLEAN :
    /\ locks[i].st = "pending"
    /\ Commit(onRejected([Cur EXCEPT !.locks[i] = FreeLock], locks[i].site,
                         err, vo, fsThrows))

\* The platform takes a granted lock back: the sentinel's 'release' event.
Revoke ==
  \E i \in LockIds, throws \in BOOLEAN :
    /\ locks[i].st = "held"
    /\ Commit(onRelease([Cur EXCEPT !.locks[i].st = "released"], i, throws))

\* The platform releases a lock release() was called on: the sentinel's
\* 'release' event.
ReleaseDone ==
  \E i \in LockIds, throws \in BOOLEAN :
    /\ locks[i].st = "releasing"
    /\ Commit(onRelease([Cur EXCEPT !.locks[i].st = "released"], i, throws))

\* The promise of release() settles for a releaseWakeLock awaiting it.
ResumeRelease ==
  \E l \in relWait :
    /\ locks[l].st = "released"
    /\ Commit(releaseWakeLockResume(Cur, l))

\* The promise of release() settles for a requestWakeLock awaiting it.
ResumeRequest ==
  \E i \in LockIds, throws \in BOOLEAN, vo \in VideoOutcomes :
    /\ locks[i].st = "waitRelease"
    /\ locks[locks[i].prev].st = "released"
    /\ Commit(IF locks[i].site = "fallback"
              THEN requestWakeLockResume(Cur, i, throws, vo)
              ELSE requestWakeLockResume_dimming(Cur, i, throws))

\* A requestFullscreen() in flight settles.
FullscreenEntered ==
  \E granted \in BOOLEAN :
    /\ fsEnter
    /\ Commit([Cur EXCEPT !.fsEnter = FALSE,
                          !.fullscreenElement = IF granted THEN TRUE ELSE @])

\* An exitFullscreen() in flight settles.
FullscreenExited ==
  /\ fsExit
  /\ Commit([Cur EXCEPT !.fsExit = FALSE, !.fullscreenElement = FALSE])

Next ==
  \/ TapFallback
  \/ OpenSetup
  \/ CloseSetup
  \/ Retry
  \/ TapBasic
  \/ TapRevoke
  \/ TapAwaited
  \/ PowerOnDimming
  \/ TapDimming
  \/ PowerOffDimming
  \/ Hide
  \/ Show
  \/ Tick
  \/ TimerFires
  \/ Grant
  \/ Reject
  \/ Revoke
  \/ ReleaseDone
  \/ ResumeRelease
  \/ ResumeRequest
  \/ FullscreenEntered
  \/ FullscreenExited

Spec == Init /\ [][Next]_vars

\* The variants taken one at a time, and the four with an idle timer.
NextFallback ==
  \/ TapFallback
  \/ OpenSetup
  \/ CloseSetup
  \/ Retry
  \/ Hide
  \/ Show
  \/ Tick
  \/ TimerFires
  \/ Grant
  \/ Reject
  \/ Revoke
  \/ ReleaseDone
  \/ ResumeRelease
  \/ ResumeRequest

NextTimers ==
  \/ NextFallback
  \/ TapBasic
  \/ TapRevoke
  \/ TapAwaited
  \/ FullscreenEntered
  \/ FullscreenExited

NextDimming ==
  \/ PowerOnDimming
  \/ TapDimming
  \/ PowerOffDimming
  \/ Hide
  \/ Show
  \/ Tick
  \/ Grant
  \/ Reject
  \/ Revoke
  \/ ReleaseDone
  \/ ResumeRelease
  \/ FullscreenEntered
  \/ FullscreenExited

InitFallback == Init /\ variant = "fallback"
InitTimers == Init /\ variant \in TimerVariants
InitDimming == Init /\ variant = "dimming"

SpecFallback == InitFallback /\ [][NextFallback]_vars
SpecTimers == InitTimers /\ [][NextTimers]_vars
SpecDimming == InitDimming /\ [][NextDimming]_vars

(***************************************************************************)
(* The claims.                                                             *)
(***************************************************************************)

ActiveNow == Active(Cur)
HeldLocks == {i \in LockIds : locks[i].st = "held"}
PendingTimers == {t \in TimerIds : timers[t] >= 0}

\* A release() has been called and its lock is not released yet, or a
\* continuation still awaits its promise.
ReleaseInFlight ==
  \/ relWait # {}
  \/ \E i \in LockIds : locks[i].st \in {"releasing", "waitRelease"}

\* C1: in every variant, a state in which the session is inactive and no
\* release is in flight has no wake lock held and the fallback video not
\* playing.
C1_InactiveHoldsNothing ==
  (~ActiveNow /\ ~ReleaseInFlight) => (HeldLocks = {} /\ ~videoPlaying)

\* C2: in every variant, a request that is granted after the session that
\* issued it was deactivated, or after a newer request was issued, is not
\* stored in wakeLockRef.
C2_LateHandleNotStored ==
  \A i \in LockIds :
    (locks[i].st \in {"held", "releasing"} /\ locks[i].stale)
      => wakeLockRef # i

\* C3: in the four timer variants, a visibilitychange to hidden handled
\* while the session is active makes it inactive in that step, cancels the
\* idle timeout and leaves timerRef null, and calls release() on the stored
\* wake lock; the fallback video is stopped in that step when no sentinel is
\* stored, and otherwise by the continuation of the awaited release(), which
\* is then pending and stops the video when it runs.
C3_HideDeactivates ==
  [][/\ (/\ variant \in TimerVariants
         /\ visibilityState = "visible"
         /\ visibilityState' = "hidden"
         /\ ActiveNow)
        => /\ ~ActiveNow'
           /\ timerRef' = 0
           /\ \A t \in TimerIds : timers'[t] = -1
           /\ wakeLockRef # 0 =>
                /\ wakeLockRef' = wakeLockRef
                /\ wakeLockRef \in relWait'
                /\ locks[wakeLockRef].st = "held"
                     => locks'[wakeLockRef].st = "releasing"
           /\ wakeLockRef = 0 => (~videoRef' /\ ~videoPlaying')
     /\ (variant \in TimerVariants /\ \E l \in relWait : l \notin relWait')
        => (wakeLockRef' = 0 /\ ~videoRef' /\ ~videoPlaying')
    ]_vars

\* C3 witness: the document was hidden under an active session that had a
\* sentinel stored and a request in flight.
C3_Witness ==
  /\ variant \in TimerVariants
  /\ visibilityState = "hidden"
  /\ wasActive /\ ~ActiveNow
  /\ wakeLockRef # 0
  /\ locks[wakeLockRef].st = "releasing"
  /\ \E i \in LockIds : locks[i].st = "pending"

\* C4: in the dimming variant, a visibilitychange to hidden while the
\* session is on turns it off and releases the wake lock.
C4_HideTurnsOffDimming ==
  [][(/\ variant = "dimming"
      /\ visibilityState = "visible"
      /\ visibilityState' = "hidden"
      /\ ~isOff)
     => (isOff' /\ \A i \in LockIds : locks'[i].st # "held")]_vars

\* C5: in the four timer variants, the idle timeout never deactivates a
\* session less than 5 seconds after its activation or its last tap.
C5_NoEarlyExpiry ==
  [][(/\ variant \in TimerVariants
      /\ TimerFires
      /\ ActiveNow
      /\ ~ActiveNow')
     => elapsed >= IdleSeconds]_vars

\* C6: in the four timer variants, a session is never active more than 5
\* seconds after its last tap.
C6_IdleSessionExpires ==
  (variant \in TimerVariants /\ ActiveNow) => elapsed <= IdleSeconds

\* C7: in the dimming variant, a session is never on more than 5 seconds
\* after its last tap.
C7_DimmingExpires ==
  (variant = "dimming" /\ ~isOff) => elapsed <= IdleSeconds

\* C8: in every variant at most one wake lock is held at any time.
C8_AtMostOneLock == Cardinality(HeldLocks) <= 1

\* C9: in the four timer variants at most one idle timeout is scheduled at
\* any time, and it is the one stored in timerRef.
C9_AtMostOneTimeout ==
  variant \in TimerVariants =>
    /\ Cardinality(PendingTimers) <= 1
    /\ \A t \in PendingTimers : t = timerRef

\* C9 witness: a tap on an active session has just cancelled the timeout
\* that was scheduled and scheduled a new one.
C9_Witness ==
  /\ variant \in TimerVariants
  /\ wasActive /\ ActiveNow
  /\ cleared
  /\ PendingTimers = {timerRef}
  /\ timers[timerRef] = IdleSeconds

\* The activation's request of the fallback variant has just failed under
\* a session still active: the tap that activated the session could not
\* issue a request (no wakeLock API, or request() threw), or the request of
\* the active session, the newest one, was rejected.
ActivationRequestFailed ==
  /\ variant = "fallback"
  /\ ActiveNow'
  /\ \/ /\ ~ActiveNow
        /\ \A i \in LockIds :
             locks'[i].st \in {"pending", "waitRelease"} => locks'[i].stale
     \/ /\ ActiveNow
        /\ \E i \in LockIds :
             /\ locks[i].st = "pending" /\ ~locks[i].stale
             /\ locks'[i].st = "free"

\* C10 as stated: in App.tsx, when the activation's request cannot be
\* granted and the session is still active, play() is called exactly once,
\* isVisible is true and wakeLockStatus is 'fallback'.
C10_FallbackOnFailure ==
  [][ActivationRequestFailed
       => (plays' = 1 /\ isVisible' /\ wakeLockStatus' = "fallback")]_vars

\* C10, amended: in App.tsx, when the activation's request cannot be
\* granted and the session is still active, play() is called exactly once
\* and isVisible is true; wakeLockStatus is 'fallback' when the video block
\* did not throw, and 'denied' when it threw.
C10_FallbackUnlessVideoThrows ==
  [][ActivationRequestFailed
       => /\ plays' = 1
          /\ isVisible'
          /\ wakeLockStatus' = IF videoThrew' THEN "denied" ELSE "fallback"
    ]_vars

\* C10 witness: with the wakeLock API present, the request of the active
\* session was rejected and the video was started.
C10_Witness ==
  /\ variant = "fallback"
  /\ hasWakeLock
  /\ wasActive /\ isVisible
  /\ plays = 1 /\ ~videoThrew
  /\ wakeLockStatus = "fallback"
  /\ videoPlaying

\* The turn being taken issues a wake-lock request, or starts the
\* requestWakeLock that issues it once the previous lock is released.
RequestIssued ==
  \E i \in LockIds :
    /\ locks'[i].st \in {"pending", "waitRelease"}
    /\ locks[i].st \notin {"pending", "waitRelease"}

\* C11: in the dimming variant, while the session is off no turn issues a
\* wake-lock request, not the release notification of the lock that
\* handlePowerOff released nor a visibilitychange to visible, and only
\* handlePowerOn makes isOff false.
C11_OffStaysOff ==
  [][(variant = "dimming" /\ isOff)
       => /\ isOff' => ~RequestIssued
          /\ ~isOff' => PowerOnDimming]_vars

\* C11 witness: after handlePowerOff, the lock it released has sent its
\* release notification under a visible document.
C11_Witness ==
  /\ variant = "dimming"
  /\ isOff /\ ~isPersistent
  /\ ~wasActive
  /\ visibilityState = "visible"
  /\ \E l \in relWait : locks[l].st = "released" /\ locks[l].site = "dim_on"

\* The variants that request fullscreen.
FullscreenVariants == {"dimming", "revoke", "awaited"}

\* C12: in the variants that request fullscreen, requestFullscreen is
\* called in the turn of the activating tap, never in a later turn that
\* continues the handler after the wake-lock request has settled.
C12_FullscreenInGestureTurn ==
  variant \in FullscreenVariants => fsFrom # "continuation"

\* C13: in every variant, no exception thrown synchronously by
\* wakeLock.request() or requestFullscreen() leaves the handler that made
\* the call: the handler runs to its end.
C13_NoFailureEscapes == ~escaped

\* The platform releases a held lock of the dimming variant in the turn
\* being taken: the lock's release notification is delivered.
LockReleasedDimming ==
  /\ variant = "dimming"
  /\ \E i \in LockIds :
       locks[i].st \in {"held", "releasing"} /\ locks'[i].st # locks[i].st
                                             /\ locks'[i].st # "releasing"

\* C14: in the dimming variant, when the platform releases a held lock, a
\* request is issued only if the session is on and persistent and the
\* document visible; in every other case the session is off afterwards.
C14_ReleaseReconciled ==
  [][LockReleasedDimming
       => IF ~isOff /\ isPersistent /\ visibilityState = "visible"
          THEN TRUE
          ELSE ~RequestIssued /\ isOff']_vars

\* C15: in the dimming variant, when the platform releases the stored lock
\* while the session is on and persistent and the document visible, a new
\* request is issued in that turn.
C15_ReleaseReacquires ==
  [][(/\ LockReleasedDimming
      /\ \E i \in LockIds : locks[i].st = "held" /\ locks'[i].st # "held"
                            /\ wakeLockRef = i
      /\ ~isOff /\ isPersistent /\ visibilityState = "visible")
       => RequestIssued]_vars

\* C16: in the revoke-terminal variant, the release notification of lock
\* i, when i is the lock stored in wakeLockRef and the session is active,
\* makes the session inactive, cancels the idle timeout and calls
\* exitFullscreen if the document is in fullscreen; when i is not the
\* stored lock, the notification changes nothing of the controller.
C16_RevocationIsTerminal ==
  [][\A i \in LockIds :
       (/\ variant = "revoke"
        /\ locks[i].st \in {"held", "releasing"}
        /\ locks'[i].st \notin {"held", "releasing"})
       => /\ (wakeLockRef = i /\ showClock)
               => /\ ~showClock'
                  /\ timerRef' = 0
                  /\ \A t \in TimerIds : timers'[t] = -1
                  /\ fullscreenElement => fsExit'
          /\ wakeLockRef # i
               => /\ showClock' = showClock
                  /\ wakeLockRef' = wakeLockRef
                  /\ timerRef' = timerRef
                  /\ timers' = timers
                  /\ relWait' = relWait
                  /\ fsExit' = fsExit /\ fsEnter' = fsEnter
    ]_vars

\* C16 witness: the stored lock of an active session in fullscreen has
\* just been released by the platform.
C16_Witness ==
  /\ variant = "revoke"
  /\ visibilityState = "visible"
  /\ wasActive /\ ~showClock
  /\ cleared /\ fsExit
  /\ wakeLockRef # 0
  /\ locks[wakeLockRef].st = "released"

\* C17: in App.tsx wakeLockStatus never changes from 'fallback' to
\* 'granted' in one turn, and never returns to 'unknown'.  (A turn that
\* takes it from 'granted' to 'fallback' always sets 'denied' first, in
\* the catch that precedes the video block.)
C17_StatusTransitions ==
  [][variant = "fallback"
       => /\ ~(wakeLockStatus = "fallback" /\ wakeLockStatus' = "granted")
          /\ (wakeLockStatus' = "unknown" => wakeLockStatus = "unknown")
    ]_vars

\* C18: in App.tsx, a turn that runs the fallback block and leaves the
\* video not playing (creating it threw, or play() was rejected) leaves
\* wakeLockStatus at 'denied', and an active session active.
C18_FailedFallbackIsDenied ==
  [][(variant = "fallback" /\ plays' = 1 /\ ~videoPlaying')
       => /\ wakeLockStatus' = "denied"
          /\ isVisible => isVisible']_vars

\* C19: in App.tsx no reachable state has a wake lock held and the
\* fallback video playing at the same time.
C19_LockExcludesVideo ==
  variant = "fallback" => ~(HeldLocks # {} /\ videoPlaying)

\* C20: in the variants that enter fullscreen, every state in which the
\* session is inactive and no requestFullscreen() or exitFullscreen() is
\* in flight has the document out of fullscreen.
C20_InactiveNotFullscreen ==
  (variant \in FullscreenVariants /\ ~ActiveNow /\ ~fsEnter /\ ~fsExit)
    => ~fullscreenElement

\* C21: a tap on an active session of a timer variant changes nothing but
\* the idle timeout: no request is issued, no fullscreen request is made,
\* and the active flag, wakeLockRef, wakeLockStatus and the video are as
\* before.  A tap on the clock of the dimming variant toggles isDimmed and
\* leaves isOff, isPersistent, wakeLockRef and the locks as they are, and
\* handleTap changes nothing while the session is off.
C21_TapFrame ==
  /\ [][((TapFallback \/ TapBasic \/ TapRevoke \/ TapAwaited) /\ ActiveNow)
          => /\ ActiveNow'
             /\ timerRef' # 0 /\ timers'[timerRef'] = IdleSeconds
             /\ fsFrom' = "none" /\ plays' = 0 /\ ~escaped'
             /\ UNCHANGED <<isVisible, showClock, showSetup, wakeLockRef,
                            wakeLockStatus, locks, relWait, videoRef,
                            videoPlaying, fsEnter, fsExit, fullscreenElement,
                            visibilityState>>]_vars
  /\ [][TapDimming
          => /\ isDimmed' = ~isDimmed
             /\ fsFrom' = "none" /\ ~escaped'
             /\ UNCHANGED <<isOff, isPersistent, hasError, wakeLockRef,
                            locks, relWait, fsEnter, fsExit,
                            fullscreenElement, visibilityState>>]_vars
  /\ [](variant = "dimming" /\ isOff => handleTap(Cur) = Cur)

\* C21 witness: a tap has just rescheduled the timeout of an active session
\* that holds its wake lock.
C21_Witness ==
  /\ variant \in TimerVariants
  /\ wasActive /\ ActiveNow
  /\ cleared /\ elapsed = 0
  /\ timerRef # 0 /\ timers[timerRef] = IdleSeconds
  /\ wakeLockRef # 0 /\ locks[wakeLockRef].st = "held"

\* C22: nothing of a previous session is carried into the next: an
\* inactive session of the dimming variant has isDimmed false, so that the
\* next one starts undimmed, and while the session of App.tsx is inactive
\* (the setup panel closed) wakeLockStatus is 'unknown'.
C22_NoHistory ==
  /\ (variant = "dimming" /\ isOff) => ~isDimmed
  /\ (variant = "fallback" /\ ~isVisible /\ ~showSetup)
       => wakeLockStatus = "unknown"

\* C23: in the dimming variant, whenever the request issued by the
\* activating tap is in flight, its rejection with NotAllowedError would
\* leave hasError set and the session as it is.
C23_DenialRecorded ==
  \A i \in LockIds :
    (variant = "dimming" /\ locks[i].st = "pending"
       /\ locks[i].site = "dim_on")
      => LET t == onRejected([Cur EXCEPT !.locks[i] = FreeLock], "dim_on",
                             "NotAllowedError", "plays", FALSE)
         IN t.hasError /\ t.isOff = isOff /\ ~t.escaped

\* C24: in every variant, every lock that is held and has no release()
\* called on it is the one stored in wakeLockRef.
C24_NoLeakedLock ==
  \A i \in LockIds : locks[i].st = "held" => wakeLockRef = i

\* C25: in the four timer variants an idle timeout is scheduled exactly
\* when the session is active, and timerRef is null while it is inactive.
C25_TimerIffActive ==
  variant \in TimerVariants =>
    /\ ActiveNow <=> PendingTimers # {}
    /\ ~ActiveNow => timerRef = 0

\* C26: in App.tsx, whenever wakeLockStatus is 'granted' the lock stored in
\* wakeLockRef is held, and whenever it is 'fallback' a video element is
\* stored in videoRef.
C26_StatusAccurate ==
  variant = "fallback" =>
    /\ wakeLockStatus = "granted"
         => (wakeLockRef # 0 /\ locks[wakeLockRef].st = "held")
    /\ wakeLockStatus = "fallback" => videoRef
====
